---- MODULE Spec2Model ----
(***************************************************************************)
(* crewAI: the task-execution control loop (CrewAgentExecutor), the        *)
(* requests-per-minute limiter (RPMController) and the wiring of limiters  *)
(* to agents by Agent and Crew.                                            *)
(*                                                                         *)
(* Two state machines share this module:                                   *)
(*   Spec      one agent's executor running one task execution, with the   *)
(*             nested execution a delegation tool starts on the same agent *)
(*   SpecCrew  a crew of two agents kicked off sequentially, every plan    *)
(*             step gated by the agent's limiter, with the limiters'       *)
(*             background timer threads and a clock                        *)
(***************************************************************************)
EXTENDS Integers, Sequences, FiniteSets, TLC

VARIABLES
    \* ---- executor (src/crewai/agents/executor.py) ----
    max_iterations,               \* CrewAgentExecutor.max_iterations
    force_answer_max_iterations,  \* CrewAgentExecutor.force_answer_max_iterations
    iterations,                   \* CrewAgentExecutor.iterations (one field per executor object)
    tools,                        \* CrewAgentExecutor.tools, reassigned by Agent.execute_task
    agent_tools,                  \* Agent.tools
    frames,                       \* the active _call invocations on this executor, outermost first
    status,                       \* "idle" | "running" | "finished" | "error"
    \* ---- crew, agents and their limiters ----
    agent_max_rpm,    \* Agent.max_rpm, per agent
    crew_max_rpm,     \* Crew.max_rpm
    rpm_controller,   \* Agent._rpm_controller, per agent: the limiter its executor calls
    max_rpm,          \* RPMController.max_rpm, per limiter
    current_rpm,      \* RPMController._current_rpm, per limiter
    lock,             \* RPMController._lock, per limiter: "none" | "free" | "main" | "timer"
    timer,            \* RPMController._timer is not None, per limiter
    tpc,              \* per limiter, where its threading.Timer thread stands
    tleft,            \* per limiter, ticks until its pending timer fires
    mpc,              \* where the main thread stands in Crew.kickoff
    task,             \* index of the task the sequential process is at
    citer,            \* iterations of the executor running that task
    mctl,             \* the limiter whose check_or_wait the main thread is in
    rd,               \* the value the main thread last read from _current_rpm
    sleepLeft,        \* ticks left of time.sleep(60)
    sctl,             \* the limiter whose stop_rpm_counter the main thread is in
    ret,              \* where the main thread goes on after stop_rpm_counter
    \* ---- history, for stating the claims ----
    notes,            \* "Max RPM reached" log calls of the current check_or_wait call
    granted,          \* per limiter, calls permitted since its counter was last reset
    ages,             \* per limiter, the ages in ticks of the calls permitted in the last 60 s
    gated,            \* pairs <<agent, limiter>>: check_or_wait of limiter ran for a plan step of agent
    calls,            \* check_or_wait calls made since the last plan step of the running _call
    runs,             \* Agent.execute_task calls made directly on the first agent
    \* ---- tools handlers and caches (src/crewai/agents/tools_handler.py) ----
    cache_handler,    \* Agent.cache_handler (= its ToolsHandler.cache), per agent: a cache's name
    caches,           \* CacheHandler._cache, per cache: a function from keys to outputs
    last_used_tool,   \* ToolsHandler.last_used_tool, per agent
    running,          \* the tool runs between on_tool_start and on_tool_end, outermost first
    hstatus,          \* "ok" | "KeyError" | "IndexError"
    lastEnd,          \* history: the last on_tool_end and what it did to the cache
    lastAdd,          \* history: the last CacheHandler.add
    lastHit,          \* history: the last run of the cache-read tool
    \* ---- tasks of a sequential crew (src/crewai/task.py) ----
    context,          \* Task.context, per task: a list of task indices
    outputs,          \* Task.output.result, per task (NoOutput: Task.output is None)
    pos,              \* the task _run_sequential_process is at (0: no kickoff is running)
    task_output,      \* the local task_output of _run_sequential_process
    used,             \* history: per task, the context its last execution passed to its agent
    kickoffs,         \* kickoffs started
    result,           \* how the last kickoff ended, and what it returned
    \* ---- one Task object and the lists it can share (src/crewai/task.py) ----
    lists,            \* the list objects: Agent.tools per agent, and the task's own list
    tsk,              \* the fields of the Task
    lastExec,         \* history: the last Task.execute
    \* ---- calls without a state of their own ----
    lastCrew,         \* history: the last construction of a Crew
    lastDeleg,        \* history: the last command given to a delegation tool
    agent_objs,       \* per agent object: its max_rpm and the limiter it holds (_rpm_controller)
    made              \* the crews constructed so far, in order: max_rpm and agent objects

loopVars == <<max_iterations, force_answer_max_iterations, iterations, tools,
              agent_tools, frames, status>>

crewVars == <<agent_max_rpm, crew_max_rpm, rpm_controller, max_rpm, current_rpm, lock,
              timer, tpc, tleft, mpc, task, citer, mctl, rd, sleepLeft, sctl, ret,
              notes, granted, ages, gated, calls, runs>>

cacheVars == <<cache_handler, caches, last_used_tool, running, hstatus, lastEnd, lastAdd,
               lastHit>>

seqVars == <<context, outputs, pos, task_output, used, kickoffs, result>>

objVars == <<lists, tsk, lastExec>>

callVars == <<lastCrew, lastDeleg, agent_objs, made>>

restVars == <<cacheVars, seqVars, objVars, callVars>>

vars == <<loopVars, crewVars, restVars>>

-----------------------------------------------------------------------------
(* Bounds of the model                                                     *)

\* max_iter ranges over 1..MaxIter
MaxIter == 3
\* plan steps explored per _call invocation (a nested execution can reset the
\* shared counter, so the number of plan steps has no bound of its own)
MaxPlans == 4
\* caps range over 1..MaxCap
MaxCap == 2
\* clock ticks per 60 seconds
WindowTicks == 1
\* max_iter of the agents of the crew
CrewMaxIter == 2

-----------------------------------------------------------------------------
(* Tools and plan results                                                  *)

\* CacheTools.name
HitCache == "Hit Cache"
\* the delegation tool AgentTools.tools() builds
Delegate == "Delegate work to co-worker"
\* the pseudo-tool the parsing-error path uses as the action's tool
ExceptionTool == "_Exception"

\* names the model can propose: two ordinary tools (the second is marked
\* return_direct), the delegation tool and a name no tool set holds
ProposedTools == {"calc", "direct", Delegate, "bogus"}
ReturnDirect == {"direct"}

\* what agent.plan gives back: AgentFinish, AgentAction, CacheHit (carrying
\* the action of a tool that ran before), or it raises OutputParserException
PlanOutputs ==
    [kind : {"AgentFinish", "OutputParserException"}, tool : {"-"}]
    \cup [kind : {"AgentAction"}, tool : ProposedTools]
    \cup [kind : {"CacheHit"}, tool : ProposedTools \ {"bogus"}]

-----------------------------------------------------------------------------
(* CrewAgentExecutor                                                       *)

set_force_answer_max_iterations(maxit) == maxit - 2

\* a variant of _should_force_answer that fires one iteration late
should_force_answer_late(it, famax) == it = famax + 1

should_force_answer(it, famax) == it = famax

\* AgentExecutor._should_continue as _call uses it: no wall-clock ceiling is
\* configured by Agent._create_agent_executor
should_continue(it, maxit) == it < maxit

\* a variant of _iter_next_step built with handle_parsing_errors=False: a
\* parsing error leaves it as a ValueError
iter_next_step_unhandled(output, it, famax) ==
    IF output.kind = "OutputParserException" \/ should_force_answer(it, famax)
    THEN IF output.kind \in {"AgentAction", "CacheHit"}
         THEN [res |-> "step", tool |-> output.tool, observation |-> "used_too_many_tools"]
         ELSE [res |-> "raise", tool |-> "-", observation |-> "ValueError"]
    ELSE IF output.kind = "AgentFinish"
    THEN [res |-> "finish", tool |-> "-", observation |-> "final_answer"]
    ELSE IF output.kind = "CacheHit"
    THEN [res |-> "run", tool |-> HitCache, observation |-> "-"]
    ELSE [res |-> "run", tool |-> output.tool, observation |-> "-"]

\* One pass of _iter_next_step up to (not including) the tool run.
\*   res = "raise"   ValueError leaves _iter_next_step
\*   res = "finish"  AgentFinish is yielded
\*   res = "step"    one AgentStep is yielded without running a tool
\*   res = "run"     the action is to be looked up in name_to_tool_map and run
iter_next_step(output, it, famax) ==
    IF output.kind = "OutputParserException"
    THEN IF should_force_answer(it, famax)
         THEN [res |-> "step", tool |-> ExceptionTool, observation |-> "used_too_many_tools"]
         ELSE [res |-> "step", tool |-> ExceptionTool, observation |-> "parse_error"]
    ELSE IF should_force_answer(it, famax)
    THEN IF output.kind \in {"AgentAction", "CacheHit"}
         THEN [res |-> "step", tool |-> output.tool, observation |-> "used_too_many_tools"]
         ELSE [res |-> "raise", tool |-> "-", observation |-> "ValueError"]
    ELSE IF output.kind = "AgentFinish"
    THEN [res |-> "finish", tool |-> "-", observation |-> "final_answer"]
    ELSE IF output.kind = "CacheHit"
    THEN [res |-> "run", tool |-> HitCache, observation |-> "-"]
    ELSE [res |-> "run", tool |-> output.tool, observation |-> "-"]

\* _iter_next_step line 244: "if agent_action.tool in name_to_tool_map"
in_tool_map(name, map) == name \in map

\* lines 263-264: the names the invalid-tool notice lists
available_tool_names(map) == map

\* _get_tool_return: looked up in self.tools, not in the local name_to_tool_map
get_tool_return(step, tls) == step.tool \in tls /\ step.tool \in ReturnDirect

NewFrame(tls) ==
    [pc |-> "loop", name_to_tool_map |-> tls, intermediate_steps |-> <<>>,
     pending |-> "-", output |-> "-",
     planAt |-> <<>>, forcedAt |-> <<>>, toolAt |-> <<>>, listedAt |-> <<>>]

Top == frames[Len(frames)]
SetTop(f) == [frames EXCEPT ![Len(frames)] = f]

\* a variant of the loop body's tail that never counts the iteration
AfterStep_uncounted(f, step, tls) ==
    LET g == [f EXCEPT !.intermediate_steps = Append(@, step), !.pending = "-"]
    IN  IF step.tool \in tls /\ step.tool \in ReturnDirect
        THEN [frame |-> [g EXCEPT !.pc = "done", !.output = step.observation], inc |-> 0]
        ELSE [frame |-> [g EXCEPT !.pc = "loop"], inc |-> 0]

\* _call lines 113-122 for a pass that yielded exactly one step
AfterStep(f, step, tls) ==
    LET g == [f EXCEPT !.intermediate_steps = Append(@, step), !.pending = "-"]
    IN  IF get_tool_return(step, tls)
        THEN [frame |-> [g EXCEPT !.pc = "done", !.output = step.observation], inc |-> 0]
        ELSE [frame |-> [g EXCEPT !.pc = "loop"], inc |-> 1]

LoopInit ==
    /\ max_iterations \in 1..MaxIter
    /\ force_answer_max_iterations = set_force_answer_max_iterations(max_iterations)
    /\ iterations = 0
    /\ agent_tools \in {{"calc"}, {"calc", "direct"}}
    /\ tools = agent_tools
    /\ frames = <<>>
    /\ status = "idle"

\* the executor alone: no crew is built
NoCrew ==
    /\ agent_max_rpm = <<>> /\ crew_max_rpm = 0 /\ rpm_controller = <<>>
    /\ max_rpm = <<>> /\ current_rpm = <<>> /\ lock = <<>> /\ timer = <<>>
    /\ tpc = <<>> /\ tleft = <<>> /\ mpc = "none" /\ task = 0 /\ citer = 0
    /\ mctl = "-" /\ rd = 0 /\ sleepLeft = 0 /\ sctl = "-" /\ ret = "-"
    /\ notes = 0 /\ granted = <<>> /\ ages = <<>> /\ gated = {} /\ calls = 0
    /\ runs = 0

\* no tools handler and no cache is built
NoCache ==
    /\ cache_handler = <<>> /\ caches = <<>> /\ last_used_tool = <<>>
    /\ running = <<>> /\ hstatus = "ok" /\ lastEnd = <<>> /\ lastAdd = <<>>
    /\ lastHit = <<>>

\* no task list is built
NoSeq ==
    /\ context = <<>> /\ outputs = <<>> /\ pos = 0 /\ task_output = <<>>
    /\ used = <<>> /\ kickoffs = 0 /\ result = <<>>

\* no Task object is built
NoObj == lists = <<>> /\ tsk = <<>> /\ lastExec = <<>>

\* no Crew was constructed and no delegation command was given
NoCalls == lastCrew = <<>> /\ lastDeleg = <<>> /\ agent_objs = <<>> /\ made = <<>>

NoRest == NoCache /\ NoSeq /\ NoObj /\ NoCalls

Init == LoopInit /\ NoCrew /\ NoRest

\* the tools argument of Agent.execute_task: none (the agent's own tools are
\* used), or the tools of the task
TaskTools == {{}, {"calc", Delegate}, {"calc", "direct", Delegate}}

\* Agent.execute_task called by Task.execute with the task's tools
ExecuteTask(task_tools) ==
    /\ status = "idle"
    /\ tools' = IF task_tools = {} THEN agent_tools ELSE task_tools
    /\ frames' = <<NewFrame(tools')>>
    /\ iterations' = 0
    /\ status' = "running"
    /\ UNCHANGED <<max_iterations, force_answer_max_iterations, agent_tools, crewVars, restVars>>

\* One pass of the while loop of _call: the rate gate (opaque here: the bound
\* check_or_wait returns True), _take_next_step, and the bookkeeping after it.
\* coworker says whom a delegation command names: the executing agent itself
\* ("self", AgentTools' roster holds every agent of the crew) or another one.
TakeNextStep(output, coworker) ==
    /\ status = "running"
    /\ Top.pc = "loop"
    /\ should_continue(iterations, max_iterations)
    /\ Len(Top.planAt) < MaxPlans
    /\ LET r   == iter_next_step(output, iterations, force_answer_max_iterations)
           n   == Len(Top.planAt) + 1
           map == IF r.res = "run" /\ output.kind = "CacheHit"
                  THEN Top.name_to_tool_map \cup {HitCache}
                  ELSE Top.name_to_tool_map
           f0  == [Top EXCEPT !.planAt = Append(@, iterations),
                              !.name_to_tool_map = map]
       IN CASE r.res = "raise" ->
                 /\ frames' = SetTop([f0 EXCEPT !.pc = "raised"])
                 /\ status' = "error"
                 /\ UNCHANGED <<iterations, tools>>
            [] r.res = "finish" ->
                 /\ frames' = SetTop([f0 EXCEPT !.pc = "done", !.output = r.observation])
                 /\ status' = IF Len(frames) = 1 THEN "finished" ELSE status
                 /\ UNCHANGED <<iterations, tools>>
            [] r.res = "step" ->
                 LET f1 == IF r.observation = "used_too_many_tools"
                           THEN [f0 EXCEPT !.forcedAt = Append(@, n)] ELSE f0
                     a  == AfterStep(f1, [tool |-> r.tool, observation |-> r.observation], tools)
                 IN /\ frames' = SetTop(a.frame)
                    /\ iterations' = iterations + a.inc
                    /\ status' = IF a.frame.pc = "done" /\ Len(frames) = 1
                                 THEN "finished" ELSE status
                    /\ UNCHANGED tools
            [] r.res = "run" /\ ~in_tool_map(r.tool, map) ->
                 LET f1 == [f0 EXCEPT !.listedAt =
                               Append(@, [n |-> n, names |-> available_tool_names(map)])]
                     a  == AfterStep(f1, [tool |-> r.tool, observation |-> "invalid_tool"], tools)
                 IN /\ frames' = SetTop(a.frame)
                    /\ iterations' = iterations + a.inc
                    /\ status' = IF a.frame.pc = "done" /\ Len(frames) = 1
                                 THEN "finished" ELSE status
                    /\ UNCHANGED tools
            [] r.res = "run" /\ in_tool_map(r.tool, map) /\ r.tool = Delegate
                  /\ coworker = "self" ->
                 \* tool.run -> AgentTools._execute -> agent.execute_task(task, context)
                 \* -> self.agent_executor.invoke -> _call on the same executor object
                 /\ tools' = agent_tools
                 /\ frames' = Append(SetTop([f0 EXCEPT !.pc = "tool", !.pending = r.tool,
                                                      !.toolAt = Append(@, n)]),
                                     NewFrame(agent_tools))
                 /\ iterations' = 0
                 /\ UNCHANGED status
            [] OTHER ->
                 LET f1 == [f0 EXCEPT !.toolAt = Append(@, n)]
                     a  == AfterStep(f1, [tool |-> r.tool, observation |-> "result"], tools)
                 IN /\ frames' = SetTop(a.frame)
                    /\ iterations' = iterations + a.inc
                    /\ status' = IF a.frame.pc = "done" /\ Len(frames) = 1
                                 THEN "finished" ELSE status
                    /\ UNCHANGED tools
    /\ UNCHANGED <<max_iterations, force_answer_max_iterations, agent_tools, crewVars, restVars>>

\* the nested execute_task returns its result to the delegation tool; the
\* outer pass of _call records the step and does its bookkeeping
ReturnFromTool ==
    /\ status = "running"
    /\ Len(frames) = 2
    /\ Top.pc = "done"
    /\ LET outer == frames[1]
           a == AfterStep(outer, [tool |-> outer.pending, observation |-> "result"], tools)
       IN /\ frames' = <<a.frame>>
          /\ iterations' = iterations + a.inc
          /\ status' = IF a.frame.pc = "done" THEN "finished" ELSE status
    /\ UNCHANGED <<max_iterations, force_answer_max_iterations, agent_tools, tools, crewVars, restVars>>

\* the while loop ends without a finish: agent.return_stopped_response
StoppedResponse ==
    /\ status = "running"
    /\ Top.pc = "loop"
    /\ ~should_continue(iterations, max_iterations)
    /\ frames' = SetTop([Top EXCEPT !.pc = "done", !.output = "stopped"])
    /\ status' = IF Len(frames) = 1 THEN "finished" ELSE status
    /\ UNCHANGED <<max_iterations, force_answer_max_iterations, agent_tools, tools, iterations,
                   crewVars, restVars>>

Next ==
    \/ \E tt \in TaskTools : ExecuteTask(tt)
    \/ \E o \in PlanOutputs, cw \in {"self", "other"} : TakeNextStep(o, cw)
    \/ ReturnFromTool
    \/ StoppedResponse

Spec == Init /\ [][Next]_vars

-----------------------------------------------------------------------------
(* RPMController, Agent and Crew                                           *)

\* max_rpm = None
None == -1
RpmValues == {None} \cup (1..MaxCap)
\* Crew.max_rpm: None, 0 or a positive cap
CrewRpmValues == RpmValues \cup {0}
\* Python truth value of an Optional[int]
Truthy(v) == v # None /\ v # 0

Agents == {"a1", "a2"}
\* the crew's limiter, and the limiter an agent with a max_rpm builds for
\* itself (named after the agent)
Controllers == Agents \cup {"crew"}
NoController == "-"
\* Crew.tasks: task k is bound to agent AgentOf[k]
AgentOf == <<"a1", "a2">>

\* Agent.set_private_attrs: the limiter the agent holds after construction
set_private_attrs(a, rpm) == IF Truthy(rpm) THEN a ELSE NoController

\* a variant of set_rpm_controller that always takes the given limiter
set_rpm_controller_overwrite(held, given) == given

\* Agent.set_rpm_controller: the agent's limiter after the call
set_rpm_controller(held, given) == IF held = NoController THEN given ELSE held

\* a variant of _create_agent_executor that binds every executor to the
\* crew's limiter
request_within_rpm_limit_crew(ctl) == "crew"

\* Agent._create_agent_executor lines 243-246: the executor's gate is
\* check_or_wait of the limiter the agent holds
request_within_rpm_limit(ctl) == ctl

\* a variant of stop_rpm_counter without the test of line 77
has_timer_unchecked(t) == TRUE

\* RPMController.stop_rpm_counter line 77: "if self._timer:"
has_timer(t) == t

\* a variant of the comparison of line 59 that admits every call
within_limit_unbounded(cur, cap) == TRUE

\* a variant of the comparison of line 59 that admits one call more
within_limit_inclusive(cur, cap) == cur <= cap

\* RPMController.check_or_wait line 59
within_limit(cur, cap) == cur < cap

\* a variant of the timer callback that writes without taking the lock
reset_request_count_unlocked == "t_write"

\* RPMController._reset_request_count: where the timer callback starts
\* ("t_lock": it takes self._lock first)
reset_request_count_entry == "t_lock"

\* RPMController.reset_counter: the limiter after construction
HasCap(c) == Truthy(max_rpm[c])

\* the state after the agents and then the crew have been constructed; at
\* most one of the two agents has a max_rpm of its own
CrewInit ==
    /\ agent_max_rpm \in {f \in [Agents -> RpmValues] : \E a \in Agents : f[a] = None}
    /\ crew_max_rpm \in CrewRpmValues
    /\ rpm_controller = [a \in Agents |->
            set_rpm_controller(set_private_attrs(a, agent_max_rpm[a]), "crew")]
    /\ max_rpm = [c \in Controllers |->
            IF c = "crew" THEN crew_max_rpm ELSE agent_max_rpm[c]]
    /\ current_rpm = [c \in Controllers |-> 0]
    /\ lock = [c \in Controllers |-> IF Truthy(max_rpm[c]) THEN "free" ELSE "none"]
    /\ timer = [c \in Controllers |-> Truthy(max_rpm[c])]
    /\ tpc = [c \in Controllers |-> IF Truthy(max_rpm[c]) THEN "pending" ELSE "none"]
    /\ tleft = [c \in Controllers |-> IF Truthy(max_rpm[c]) THEN WindowTicks ELSE 0]
    /\ mpc = "idle"
    /\ task = 0
    /\ citer = 0
    /\ mctl = NoController
    /\ rd = 0
    /\ sleepLeft = 0
    /\ sctl = NoController
    /\ ret = "-"
    /\ notes = 0
    /\ granted = [c \in Controllers |-> 0]
    /\ ages = [c \in Controllers |-> <<>>]
    /\ gated = {}
    /\ calls = 0
    /\ runs = 0

NoLoop ==
    /\ max_iterations = CrewMaxIter
    /\ force_answer_max_iterations = set_force_answer_max_iterations(CrewMaxIter)
    /\ iterations = 0 /\ tools = {} /\ agent_tools = {} /\ frames = <<>>
    /\ status = "idle"

config == <<agent_max_rpm, crew_max_rpm, rpm_controller, max_rpm>>
timerVars == <<timer, tpc, tleft>>
stopVars == <<sctl, ret>>

\* ---- the main thread: Crew.kickoff, sequential process ----

\* Crew.kickoff up to the first task's executor._call (iterations = 0)
Kickoff ==
    /\ mpc = "idle"
    /\ task' = 1
    /\ citer' = 0
    /\ mpc' = "loop"
    /\ UNCHANGED <<loopVars, restVars, runs, calls, config, current_rpm, lock, timerVars, mctl, rd,
                   sleepLeft, stopVars, notes, granted, ages, gated>>

\* the while test of _call and the call of request_within_rpm_limit, up to
\* check_or_wait's "if not self.max_rpm: return True"
LoopTest ==
    /\ mpc = "loop"
    /\ IF should_continue(citer, CrewMaxIter)
       THEN LET c == request_within_rpm_limit(rpm_controller[AgentOf[task]])
            IN /\ mctl' = c
               /\ notes' = 0
               /\ calls' = calls + 1
               /\ gated' = gated \cup {<<AgentOf[task], c>>}
               /\ mpc' = IF Truthy(max_rpm[c]) THEN "cow_lock" ELSE "plan"
       ELSE /\ mpc' = "task_end"
            /\ UNCHANGED <<mctl, notes, gated, calls>>
    /\ UNCHANGED <<loopVars, restVars, runs, config, current_rpm, lock, timerVars, task, citer, rd,
                   sleepLeft, stopVars, granted, ages>>

\* "with self._lock:" in check_or_wait and in _wait_for_next_minute; a
\* threading.Lock is not reentrant
MainAcquire ==
    /\ mpc \in {"cow_lock", "wfm_lock"}
    /\ lock[mctl] = "free"
    /\ lock' = [lock EXCEPT ![mctl] = "main"]
    /\ mpc' = IF mpc = "cow_lock" THEN "cow_check" ELSE "wfm_write"
    /\ UNCHANGED <<loopVars, restVars, runs, calls, config, current_rpm, timerVars, task, citer, mctl, rd,
                   sleepLeft, stopVars, notes, granted, ages, gated>>

\* the reads of self._current_rpm: the comparison of line 59 and the read
\* half of "+= 1"
MainRead ==
    /\ mpc \in {"cow_check", "cow_incr_rd"}
    /\ rd' = current_rpm[mctl]
    /\ mpc' = IF mpc = "cow_incr_rd" THEN "cow_incr_wr"
              ELSE IF within_limit(rd', max_rpm[mctl]) THEN "cow_incr_rd" ELSE "cow_log"
    /\ UNCHANGED <<loopVars, restVars, runs, calls, config, current_rpm, lock, timerVars, task, citer, mctl,
                   sleepLeft, stopVars, notes, granted, ages, gated>>

\* the writes of self._current_rpm by the main thread, each the last
\* statement under its "with self._lock:", whose exit releases the lock: the
\* write half of "+= 1" and "return True" (lines 60-61), "= 0" at the end of
\* _wait_for_next_minute (line 91), "= 1" and "return True" (lines 67-68)
MainWrite ==
    /\ mpc \in {"cow_incr_wr", "wfm_write", "cow_set1"}
    /\ LET v == CASE mpc = "cow_incr_wr" -> rd + 1
                  [] mpc = "wfm_write" -> 0
                  [] mpc = "cow_set1" -> 1
           g == CASE mpc = "cow_incr_wr" -> granted[mctl] + 1
                  [] mpc = "wfm_write" -> 0
                  [] mpc = "cow_set1" -> 1
       IN /\ current_rpm' = [current_rpm EXCEPT ![mctl] = v]
          /\ granted' = [granted EXCEPT ![mctl] = g]
          /\ ages' = IF mpc = "wfm_write" THEN ages
                     ELSE [ages EXCEPT ![mctl] = Append(@, 0)]
    /\ lock' = [lock EXCEPT ![mctl] = "free"]
    /\ mpc' = IF mpc = "wfm_write" THEN "cow_set1" ELSE "plan"
    /\ UNCHANGED <<loopVars, restVars, runs, calls, config, timerVars, task, citer, mctl, rd,
                   sleepLeft, stopVars, notes, gated>>

\* lines 63-66 and 89: logger.log("info", "Max RPM reached, ..."), then
\* _wait_for_next_minute starts time.sleep(60), the lock still held
LogMaxRpm ==
    /\ mpc = "cow_log"
    /\ notes' = notes + 1
    /\ sleepLeft' = WindowTicks
    /\ mpc' = "wfm_sleep"
    /\ UNCHANGED <<loopVars, restVars, runs, calls, config, current_rpm, lock, timerVars, task, citer, mctl, rd,
                   stopVars, granted, ages, gated>>

\* time.sleep(60) returns
Wake ==
    /\ mpc = "wfm_sleep"
    /\ sleepLeft = 0
    /\ mpc' = "wfm_lock"
    /\ UNCHANGED <<loopVars, restVars, runs, calls, config, current_rpm, lock, timerVars, task, citer, mctl, rd,
                   sleepLeft, stopVars, notes, granted, ages, gated>>

\* the rest of the pass of _call once the gate returned True: the plan step
\* and what follows it either end the execution or increment iterations
Plan(finish) ==
    /\ mpc = "plan"
    /\ IF finish
       THEN mpc' = "task_end" /\ UNCHANGED citer
       ELSE mpc' = "loop" /\ citer' = citer + 1
    /\ calls' = 0
    /\ UNCHANGED <<loopVars, restVars, runs, config, current_rpm, lock, timerVars, task, mctl, rd,
                   sleepLeft, stopVars, notes, granted, ages, gated>>

\* Agent.execute_task lines 191-192
ExecuteTaskTail ==
    /\ mpc = "task_end"
    /\ IF Truthy(agent_max_rpm[AgentOf[task]])
       THEN /\ mpc' = "stop_cancel"
            /\ sctl' = rpm_controller[AgentOf[task]]
            /\ ret' = "next_task"
       ELSE /\ mpc' = "next_task"
            /\ UNCHANGED stopVars
    /\ UNCHANGED <<loopVars, restVars, runs, calls, config, current_rpm, lock, timerVars, task, citer, mctl, rd,
                   sleepLeft, notes, granted, ages, gated>>

\* stop_rpm_counter lines 77-78: if self._timer: self._timer.cancel().
\* cancel() ends a timer that has not fired and does nothing to one that has
StopCancel ==
    /\ mpc = "stop_cancel"
    /\ IF has_timer(timer[sctl])
       THEN /\ mpc' = "stop_clear"
            /\ tpc' = [tpc EXCEPT ![sctl] = IF @ = "pending" THEN "none" ELSE @]
       ELSE /\ mpc' = ret
            /\ UNCHANGED tpc
    /\ UNCHANGED <<loopVars, restVars, runs, calls, config, current_rpm, lock, timer, tleft, task, citer, mctl, rd,
                   sleepLeft, stopVars, notes, granted, ages, gated>>

\* stop_rpm_counter line 79: self._timer = None
StopClear ==
    /\ mpc = "stop_clear"
    /\ timer' = [timer EXCEPT ![sctl] = FALSE]
    /\ mpc' = ret
    /\ UNCHANGED <<loopVars, restVars, runs, calls, config, current_rpm, lock, tpc, tleft, task, citer, mctl, rd,
                   sleepLeft, stopVars, notes, granted, ages, gated>>

\* the for loop of _run_sequential_process goes on to the next task's
\* executor._call (iterations = 0); after the last task, lines 241-242
NextTask ==
    /\ mpc = "next_task"
    /\ IF task < Len(AgentOf)
       THEN /\ task' = task + 1
            /\ citer' = 0
            /\ mpc' = "loop"
            /\ UNCHANGED stopVars
       ELSE /\ UNCHANGED <<task, citer>>
            /\ IF Truthy(crew_max_rpm)
               THEN mpc' = "stop_cancel" /\ sctl' = "crew" /\ ret' = "done"
               ELSE mpc' = "done" /\ UNCHANGED stopVars
    /\ UNCHANGED <<loopVars, restVars, runs, calls, config, current_rpm, lock, timerVars, mctl, rd,
                   sleepLeft, notes, granted, ages, gated>>

\* stop_rpm_counter called once more on limiter c after kickoff has returned
StopAgain(c) ==
    /\ mpc = "done"
    /\ sctl' = c
    /\ ret' = "done2"
    /\ mpc' = "stop_cancel"
    /\ UNCHANGED <<loopVars, restVars, runs, calls, config, current_rpm, lock, timerVars, task,
                   citer, mctl, rd, sleepLeft, notes, granted, ages, gated>>

\* ---- a limiter's timer thread: _reset_request_count ----

TimerFire(c) ==
    /\ tpc[c] = "pending"
    /\ tleft[c] = 0
    /\ tpc' = [tpc EXCEPT ![c] = reset_request_count_entry]
    /\ UNCHANGED <<loopVars, restVars, runs, calls, config, current_rpm, lock, timer, tleft, mpc, task, citer,
                   mctl, rd, sleepLeft, stopVars, notes, granted, ages, gated>>

TimerAcquire(c) ==
    /\ tpc[c] = "t_lock"
    /\ lock[c] = "free"
    /\ lock' = [lock EXCEPT ![c] = "timer"]
    /\ tpc' = [tpc EXCEPT ![c] = "t_write"]
    /\ UNCHANGED <<loopVars, restVars, runs, calls, config, current_rpm, timer, tleft, mpc, task, citer,
                   mctl, rd, sleepLeft, stopVars, notes, granted, ages, gated>>

\* line 103, and the exit of "with self._lock:"
TimerWrite(c) ==
    /\ tpc[c] = "t_write"
    /\ current_rpm' = [current_rpm EXCEPT ![c] = 0]
    /\ granted' = [granted EXCEPT ![c] = 0]
    /\ lock' = [lock EXCEPT ![c] = "free"]
    /\ tpc' = [tpc EXCEPT ![c] = "t_rearm"]
    /\ UNCHANGED <<loopVars, restVars, runs, calls, config, timer, tleft, mpc, task, citer,
                   mctl, rd, sleepLeft, stopVars, notes, ages, gated>>

\* lines 104-107: the timer self._timer may still name is this one, which
\* has fired, so cancel() does nothing; a new timer is created and started
TimerRearm(c) ==
    /\ tpc[c] = "t_rearm"
    /\ timer' = [timer EXCEPT ![c] = TRUE]
    /\ tpc' = [tpc EXCEPT ![c] = "pending"]
    /\ tleft' = [tleft EXCEPT ![c] = WindowTicks]
    /\ UNCHANGED <<loopVars, restVars, runs, calls, config, current_rpm, lock, mpc, task, citer,
                   mctl, rd, sleepLeft, stopVars, notes, granted, ages, gated>>

\* ---- the clock ----

RECURSIVE Aged(_)
\* every age one tick older; calls older than 60 s are forgotten
Aged(sq) ==
    IF sq = <<>> THEN <<>>
    ELSE IF Head(sq) + 1 >= WindowTicks THEN Aged(Tail(sq))
    ELSE <<Head(sq) + 1>> \o Aged(Tail(sq))

\* a due timer fires and a finished sleep returns before the clock moves on
Tick ==
    /\ \A c \in Controllers : ~(tpc[c] = "pending" /\ tleft[c] = 0)
    /\ ~(mpc = "wfm_sleep" /\ sleepLeft = 0)
    /\ tleft' = [c \in Controllers |->
                    IF tpc[c] = "pending" THEN tleft[c] - 1 ELSE tleft[c]]
    /\ sleepLeft' = IF mpc = "wfm_sleep" THEN sleepLeft - 1 ELSE sleepLeft
    /\ ages' = [c \in Controllers |-> Aged(ages[c])]
    /\ UNCHANGED <<loopVars, restVars, runs, calls, config, current_rpm, lock, timer, tpc, mpc, task, citer,
                   mctl, rd, stopVars, notes, granted, gated>>

MainNext ==
    \/ Kickoff
    \/ LoopTest
    \/ MainAcquire
    \/ MainRead
    \/ MainWrite
    \/ LogMaxRpm
    \/ Wake
    \/ \E finish \in BOOLEAN : Plan(finish)
    \/ ExecuteTaskTail
    \/ StopCancel
    \/ StopClear
    \/ NextTask
    \/ \E c \in Controllers : StopAgain(c)

TimerNext(c) ==
    \/ TimerFire(c)
    \/ TimerAcquire(c)
    \/ TimerWrite(c)
    \/ TimerRearm(c)

CrewNext ==
    \/ MainNext
    \/ \E c \in Controllers : TimerNext(c)
    \/ Tick

CrewStart == CrewInit /\ NoLoop /\ NoRest

SpecCrew == CrewStart /\ [][CrewNext]_vars

\* every thread that can run does run, and time passes; a thread that waits
\* for a lock the other thread takes and releases again and again (the timer
\* callback holds it for one assignment per window) gets it eventually
FairSpecCrew ==
    /\ SpecCrew
    /\ SF_vars(MainNext)
    /\ \A c \in Controllers : SF_vars(TimerNext(c))
    /\ WF_vars(Tick)


\* ---- one agent with a max_rpm of its own, used without a crew ----

\* direct calls of Agent.execute_task that are followed
MaxRuns == 2

\* Agent(max_rpm=cap): set_private_attrs builds the agent's limiter, whose
\* construction starts the first timer; no Crew is constructed
AgentInit ==
    /\ agent_max_rpm \in {f \in [Agents -> RpmValues] : f["a1"] # None /\ f["a2"] = None}
    /\ crew_max_rpm = None
    /\ rpm_controller = [a \in Agents |-> set_private_attrs(a, agent_max_rpm[a])]
    /\ max_rpm = [c \in Controllers |->
            IF c = "crew" THEN crew_max_rpm ELSE agent_max_rpm[c]]
    /\ current_rpm = [c \in Controllers |-> 0]
    /\ lock = [c \in Controllers |-> IF Truthy(max_rpm[c]) THEN "free" ELSE "none"]
    /\ timer = [c \in Controllers |-> Truthy(max_rpm[c])]
    /\ tpc = [c \in Controllers |-> IF Truthy(max_rpm[c]) THEN "pending" ELSE "none"]
    /\ tleft = [c \in Controllers |-> IF Truthy(max_rpm[c]) THEN WindowTicks ELSE 0]
    /\ mpc = "idle"
    /\ task = 0
    /\ citer = 0
    /\ mctl = NoController
    /\ rd = 0
    /\ sleepLeft = 0
    /\ sctl = NoController
    /\ ret = "-"
    /\ notes = 0
    /\ granted = [c \in Controllers |-> 0]
    /\ ages = [c \in Controllers |-> <<>>]
    /\ gated = {}
    /\ calls = 0
    /\ runs = 0

\* Agent.execute_task lines 174-181, up to the executor's _call
\* (iterations = 0); task 1 is the first agent's
AgentExecuteTask ==
    /\ mpc = "idle"
    /\ runs < MaxRuns
    /\ runs' = runs + 1
    /\ task' = 1
    /\ citer' = 0
    /\ mpc' = "loop"
    /\ UNCHANGED <<loopVars, restVars, calls, config, current_rpm, lock, timerVars, mctl, rd,
                   sleepLeft, stopVars, notes, granted, ages, gated>>

\* Agent.execute_task line 194: return result
AgentReturn ==
    /\ mpc = "next_task"
    /\ mpc' = "idle"
    /\ UNCHANGED <<loopVars, restVars, runs, calls, config, current_rpm, lock, timerVars, task,
                   citer, mctl, rd, sleepLeft, stopVars, notes, granted, ages, gated>>

AgentNext ==
    \/ AgentExecuteTask
    \/ LoopTest
    \/ MainAcquire
    \/ MainRead
    \/ MainWrite
    \/ LogMaxRpm
    \/ Wake
    \/ \E finish \in BOOLEAN : Plan(finish)
    \/ ExecuteTaskTail
    \/ StopCancel
    \/ StopClear
    \/ AgentReturn
    \/ TimerNext("a1")
    \/ Tick

AgentStart == AgentInit /\ NoLoop /\ NoRest

SpecAgent == AgentStart /\ [][AgentNext]_vars

-----------------------------------------------------------------------------
(* ToolsHandler, CacheTools and the cache                                  *)
(* Strings are sequences of tokens, so that joining and splitting act on   *)
(* what the strings hold.                                                  *)

\* entries held by all caches together
MaxEntries == 1

Space == " "
Hyphen == "-"
ToolPrefix == "tool:"
InputSep == "|input:"

\* names of ordinary tools, and inputs the model can propose for them
ToolNames == {<<"a">>, <<"a", Hyphen, "b">>}
ToolInputs == {<<"c">>, <<"b", Hyphen, "c">>, <<"c", InputSep, "d">>}
\* the tool calls a plan can propose
ToolCalls == {<<n, i>> \in ToolNames \X ToolInputs : n = <<"a">> \/ i = <<"c">>}
\* the input of a delegation, of an invalid tool and of a parsing exception
OtherInput == <<"c">>

InvalidToolName == "invalid_tool"
NotValidTool == "x is not a valid tool"
InvalidResponse == "Invalid or incomplete response"
InvalidFormat == "Invalid Format"
\* the text of TaskRepeatedUsageException
RepeatedUsage == "task_repeated_usage"
\* str(None)
NotFound == "None"
ToolOutputs == {"o1", "o2"}

\* on_tool_end lines 106-110
has_error_substring(out) == out \in {NotValidTool, InvalidResponse, InvalidFormat}

\* the observations a run of the named tool can end with
ObservationsOf(name) ==
    CASE name = <<InvalidToolName>> -> {NotValidTool}
      [] name = <<ExceptionTool>> -> {InvalidResponse, RepeatedUsage}
      [] OTHER -> ToolOutputs

\* ---- strings ----

\* index of the first tok in s, 0 when there is none
Find(s, tok) ==
    IF \E i \in 1..Len(s) : s[i] = tok
    THEN CHOOSE i \in 1..Len(s) : s[i] = tok /\ \A j \in 1..(i - 1) : s[j] # tok
    ELSE 0

\* s.split(tok)[0]
Piece0(s, tok) == IF Find(s, tok) = 0 THEN s ELSE SubSeq(s, 1, Find(s, tok) - 1)

\* s.split(tok)[1], for s that holds tok
Piece1(s, tok) == Piece0(SubSeq(s, Find(s, tok) + 1, Len(s)), tok)

RECURSIVE lstrip(_)
lstrip(s) == IF s # <<>> /\ Head(s) = Space THEN lstrip(Tail(s)) ELSE s

RECURSIVE rstrip(_)
rstrip(s) ==
    IF s # <<>> /\ s[Len(s)] = Space THEN rstrip(SubSeq(s, 1, Len(s) - 1)) ELSE s

\* str.strip()
strip(s) == rstrip(lstrip(s))

\* ---- CacheHandler ----

\* the key of an entry
cache_key(tool, input) == tool \o <<Hyphen>> \o input

\* a variant of add that keeps the value an existing key has
cache_add_keep(c, tool, input, out) ==
    IF cache_key(tool, input) \in DOMAIN c THEN c
    ELSE [k \in DOMAIN c \cup {cache_key(tool, input)} |->
             IF k = cache_key(tool, input) THEN out ELSE c[k]]

\* CacheHandler.add
cache_add(c, tool, input, out) ==
    [k \in DOMAIN c \cup {cache_key(tool, input)} |->
        IF k = cache_key(tool, input) THEN out ELSE c[k]]

\* CacheHandler.read
cache_read(c, tool, input) ==
    IF cache_key(tool, input) \in DOMAIN c THEN c[cache_key(tool, input)] ELSE NotFound

EmptyCache == [k \in {} |-> "o1"]

\* ---- the cache-read tool ----

\* _iter_next_step line 232
pack(tool, input) == <<ToolPrefix>> \o tool \o <<InputSep>> \o input

\* CacheTools.hit_cache lines 77-79: the arguments of cache_handler.read;
\* ok is FALSE when the second split has one piece only (IndexError)
hit_cache_args(key) ==
    LET seg == Piece1(key, ToolPrefix)
    IN  IF Find(seg, InputSep) = 0
        THEN [ok |-> FALSE, tool |-> <<>>, input |-> <<>>]
        ELSE [ok |-> TRUE, tool |-> strip(Piece0(seg, InputSep)),
              input |-> strip(Piece1(seg, InputSep))]

\* ---- ToolsHandler ----

\* ToolsHandler.last_used_tool = {}
NoTool == [tool |-> <<>>, input |-> <<>>]

NoEnd == [set |-> FALSE, agent |-> "-", tool |-> <<>>, input |-> <<>>, output |-> "-",
          wrote |-> FALSE, wtool |-> <<>>, winput |-> <<>>, cache |-> "-"]
NoAdd == [set |-> FALSE, agent |-> "-", cache |-> "-", tool |-> <<>>, input |-> <<>>, output |-> "-",
          had |-> FALSE, size |-> 0, old |-> "-"]
NoHit == [set |-> FALSE, agent |-> "-", tool |-> <<>>, input |-> <<>>, rtool |-> <<>>,
          rinput |-> <<>>, result |-> "-", cache |-> "-"]

\* a variant of set_cache_handler that keeps a handler the agent holds
set_cache_handler_keep(held, given) == held

\* Agent.set_cache_handler line 203
set_cache_handler(held, given) == given

\* before any Crew: every agent holds a cache handler of its own
CacheInit ==
    /\ cache_handler = [a \in Agents |-> a]
    /\ caches = [a \in Agents |-> EmptyCache]
    /\ last_used_tool = [a \in Agents |-> NoTool]
    /\ running = <<>>
    /\ hstatus = "ok"
    /\ lastEnd = NoEnd
    /\ lastAdd = NoAdd
    /\ lastHit = NoHit

CrewBuilt == "crew" \in DOMAIN caches
TotalEntries(cs, names) == Cardinality({<<c, k>> \in names \X UNION {DOMAIN cs[c] : c \in names} :
                                          k \in DOMAIN cs[c]})
TopRun == running[Len(running)]
\* a tool can start when none runs, or inside a running delegation
CanStart == running = <<>> \/ (Len(running) = 1 /\ TopRun.tool = <<Delegate>>)

\* Crew.set_private_attrs and Crew.check_config: a new cache, handed to every
\* agent, each of which gets a new ToolsHandler
BuildCrew ==
    /\ ~CrewBuilt
    /\ hstatus = "ok"
    /\ running = <<>>
    /\ caches' = [c \in DOMAIN caches \cup {"crew"} |->
                     IF c = "crew" THEN EmptyCache ELSE caches[c]]
    /\ cache_handler' = [a \in Agents |-> set_cache_handler(cache_handler[a], "crew")]
    /\ last_used_tool' = [a \in Agents |-> NoTool]
    /\ lastEnd' = NoEnd
    /\ lastAdd' = NoAdd
    /\ lastHit' = NoHit
    /\ UNCHANGED <<loopVars, crewVars, seqVars, objVars, callVars, running, hstatus>>

\* ToolsHandler.on_tool_start, called when agent a's executor starts a tool
OnToolStart(a, name, input) ==
    /\ hstatus = "ok"
    /\ CanStart
    /\ running # <<>> => name # <<Delegate>>
    /\ last_used_tool' =
          IF name \in {<<InvalidToolName>>, <<ExceptionTool>>} THEN last_used_tool
          ELSE [last_used_tool EXCEPT ![a] = [tool |-> name, input |-> input]]
    /\ running' = Append(running, [agent |-> a, tool |-> name, input |-> input])
    /\ lastEnd' = NoEnd
    /\ lastAdd' = NoAdd
    /\ lastHit' = NoHit
    /\ UNCHANGED <<loopVars, crewVars, seqVars, objVars, callVars, cache_handler, caches, hstatus>>

\* ToolsHandler.on_tool_end, called when the innermost running tool returns out
OnToolEnd(out) ==
    /\ hstatus = "ok"
    /\ running # <<>>
    /\ out \in ObservationsOf(TopRun.tool)
    /\ LET r    == TopRun
           a    == r.agent
           last == last_used_tool[a]
           c    == cache_handler[a]
           ev   == [set |-> TRUE, agent |-> a, tool |-> r.tool, input |-> r.input,
                    output |-> out, wrote |-> FALSE, wtool |-> <<>>, winput |-> <<>>,
                    cache |-> c]
       IN IF has_error_substring(out)
          THEN /\ lastEnd' = ev
               /\ UNCHANGED <<caches, hstatus, lastAdd>>
          ELSE IF last = NoTool
          THEN /\ hstatus' = "KeyError"
               /\ lastEnd' = ev
               /\ UNCHANGED <<caches, lastAdd>>
          ELSE IF last.tool = <<HitCache>>
          THEN /\ lastEnd' = ev
               /\ UNCHANGED <<caches, hstatus, lastAdd>>
          ELSE /\ \/ cache_key(last.tool, last.input) \in DOMAIN caches[c]
                  \/ TotalEntries(caches, DOMAIN caches) < MaxEntries
               /\ caches' = [caches EXCEPT ![c] = cache_add(@, last.tool, last.input, out)]
               /\ lastAdd' = [set |-> TRUE, agent |-> a, cache |-> c, tool |-> last.tool,
                              input |-> last.input, output |-> out,
                              had |-> cache_key(last.tool, last.input) \in DOMAIN caches[c],
                              size |-> Cardinality(DOMAIN caches[c]),
                              old |-> cache_read(caches[c], last.tool, last.input)]
               /\ lastEnd' = [ev EXCEPT !.wrote = TRUE, !.wtool = last.tool,
                                        !.winput = last.input]
               /\ UNCHANGED hstatus
    /\ running' = SubSeq(running, 1, Len(running) - 1)
    /\ lastHit' = NoHit
    /\ UNCHANGED <<loopVars, crewVars, seqVars, objVars, callVars, cache_handler, last_used_tool>>

\* The plan of agent a returned a cache-hit signal for (name, input), which
\* its cache holds: _iter_next_step rewrites the action (lines 227-235) and
\* runs the cache-read tool (lines 244-258): on_tool_start, hit_cache,
\* on_tool_end.
CacheHit(a, name, input) ==
    /\ hstatus = "ok"
    /\ CanStart
    /\ cache_key(name, input) \in DOMAIN caches[cache_handler[a]]
    /\ LET c    == cache_handler[a]
           key  == pack(name, input)
           args == hit_cache_args(key)
           res  == IF args.ok THEN cache_read(caches[c], args.tool, args.input) ELSE "-"
       IN /\ last_used_tool' = [last_used_tool EXCEPT
                                   ![a] = [tool |-> <<HitCache>>, input |-> key]]
          /\ hstatus' = IF args.ok THEN "ok" ELSE "IndexError"
          /\ lastHit' = [set |-> TRUE, agent |-> a, tool |-> name, input |-> input,
                         rtool |-> args.tool, rinput |-> args.input, result |-> res,
                         cache |-> c]
          /\ lastEnd' = IF args.ok
                        THEN [set |-> TRUE, agent |-> a, tool |-> <<HitCache>>,
                              input |-> key, output |-> res, wrote |-> FALSE,
                              wtool |-> <<>>, winput |-> <<>>, cache |-> c]
                        ELSE lastEnd
    /\ UNCHANGED <<loopVars, crewVars, seqVars, objVars, callVars, cache_handler, caches, running, lastAdd>>

CacheNext ==
    \/ BuildCrew
    \/ \E a \in Agents, call \in ToolCalls : OnToolStart(a, call[1], call[2])
    \/ \E a \in Agents, n \in {<<Delegate>>, <<InvalidToolName>>, <<ExceptionTool>>} :
          OnToolStart(a, n, OtherInput)
    \/ \E out \in ToolOutputs \cup {NotValidTool, InvalidResponse, RepeatedUsage} :
          OnToolEnd(out)
    \/ \E a \in Agents, call \in ToolCalls : CacheHit(a, call[1], call[2])

CacheStart == CacheInit /\ NoLoop /\ NoCrew /\ NoSeq /\ NoObj /\ NoCalls

SpecCache == CacheStart /\ [][CacheNext]_vars

-----------------------------------------------------------------------------
(* Tasks of a sequential crew (src/crewai/task.py, src/crewai/crew.py)     *)

\* tasks of the crew
NTasks == 3
\* kickoffs of the same crew
MaxKickoffs == 2

Newline == "\n"
Tasks == 1..NTasks
\* the context lists a task can declare
ContextLists == {<<>>, <<1>>, <<2>>, <<1, 2>>, <<2, 1>>, <<NTasks>>}
\* what an agent can return for a task
Results == {<<"r1">>, <<"r2">>}

\* Task.output is None
NoOutput == [set |-> FALSE, result |-> <<>>]
NoUse == [set |-> FALSE, val |-> <<>>]
NoResult == [state |-> "none", val |-> <<>>]

\* str.join
RECURSIVE join(_, _)
join(sep, xs) ==
    IF xs = <<>> THEN <<>>
    ELSE IF Len(xs) = 1 THEN xs[1]
    ELSE xs[1] \o <<sep>> \o join(sep, Tail(xs))

\* a variant of Task.execute that passes on the context it was given
effective_context_passed(declared, passed, outs) == passed

\* a variant of Task.execute that joins the declared list even when it is empty
effective_context_joined(declared, passed, outs) ==
    join(Newline, [n \in 1..Len(declared) |-> outs[declared[n]].result])

\* Task.execute lines 113-114, for declared tasks that all have an output
effective_context(declared, passed, outs) ==
    IF declared # <<>>
    THEN join(Newline, [n \in 1..Len(declared) |-> outs[declared[n]].result])
    ELSE passed

SeqInit ==
    /\ context \in [Tasks -> ContextLists]
    /\ outputs = [k \in Tasks |-> NoOutput]
    /\ pos = 0
    /\ task_output = <<>>
    /\ used = [k \in Tasks |-> NoUse]
    /\ kickoffs = 0
    /\ result = NoResult

\* Crew.kickoff and the first line of _run_sequential_process
SeqKickoff ==
    /\ pos = 0
    /\ kickoffs < MaxKickoffs
    /\ kickoffs' = kickoffs + 1
    /\ pos' = 1
    /\ task_output' = <<>>
    /\ used' = [k \in Tasks |-> NoUse]
    /\ result' = NoResult
    /\ UNCHANGED <<loopVars, crewVars, cacheVars, objVars, callVars, context, outputs>>

\* one pass of the loop of _run_sequential_process: Task.execute of the task
\* at pos, whose agent returns res
RunTask(res) ==
    /\ pos \in Tasks
    /\ IF \E n \in 1..Len(context[pos]) : ~outputs[context[pos][n]].set
       THEN \* task.output.result of a task that has no output
            /\ result' = [state |-> "AttributeError", val |-> <<>>]
            /\ pos' = 0
            /\ UNCHANGED <<outputs, task_output, used>>
       ELSE /\ used' = [used EXCEPT ![pos] =
                          [set |-> TRUE,
                           val |-> effective_context(context[pos], task_output, outputs)]]
            /\ outputs' = [outputs EXCEPT ![pos] = [set |-> TRUE, result |-> res]]
            /\ task_output' = res
            /\ pos' = pos + 1
            /\ UNCHANGED result
    /\ UNCHANGED <<loopVars, crewVars, cacheVars, objVars, callVars, context, kickoffs>>

\* _run_sequential_process line 244
SeqReturn ==
    /\ pos = NTasks + 1
    /\ result' = [state |-> "returned", val |-> task_output]
    /\ pos' = 0
    /\ UNCHANGED <<loopVars, crewVars, cacheVars, objVars, callVars, context, outputs, task_output, used, kickoffs>>

SeqNext ==
    \/ SeqKickoff
    \/ \E res \in Results : RunTask(res)
    \/ SeqReturn

SeqStart == SeqInit /\ NoLoop /\ NoCrew /\ NoCache /\ NoObj /\ NoCalls

SpecTasks == SeqStart /\ [][SeqNext]_vars

-----------------------------------------------------------------------------
(* One Task object: construction, tools, execute (src/crewai/task.py)      *)
(* Python lists are objects: a field holds a reference to a list, and two  *)
(* fields that hold the same list see each other's changes.                *)

\* times the scheduler appends the delegation tools to the task's tools
MaxAppends == 2

\* Task.agent is None, or no agent is passed to execute
NoAgent == "-"
AgentOrNone == Agents \cup {NoAgent}
\* the second tool AgentTools.tools() builds
AskQuestion == "Ask question to co-worker"
\* tools a task can declare
DeclaredTools == {<<>>, <<"C">>}
\* agents with allow_delegation
AllowDelegation == {"a1"}

\* a variant of check_tools that makes the task share its agent's list
check_tools_shared(declared, ag, atools) ==
    IF declared = <<>> /\ ag # NoAgent /\ atools # <<>>
    THEN [ref |-> ag, val |-> atools]
    ELSE [ref |-> "task", val |-> declared]

\* a variant of check_tools that adds the agent's tools to declared ones
check_tools_merged(declared, ag, atools) ==
    IF ag # NoAgent /\ atools # <<>>
    THEN [ref |-> "task", val |-> declared \o atools]
    ELSE [ref |-> "task", val |-> declared]

\* Task.check_tools: the list object Task.tools names after construction
\* ("task": the list pydantic built for the field) and what it holds
check_tools(declared, ag, atools) ==
    IF declared = <<>> /\ ag # NoAgent /\ atools # <<>>
    THEN [ref |-> "task", val |-> declared \o atools]
    ELSE [ref |-> "task", val |-> declared]

\* a variant of Task.execute without the test of lines 108-111
execute_outcome_unchecked(override, bound) ==
    IF bound = NoAgent
    THEN [raised |-> "AttributeError", ran |-> NoAgent]
    ELSE [raised |-> "none", ran |-> bound]

\* Task.execute lines 107-118: what is raised, and the agent whose
\* execute_task runs
execute_outcome(override, bound) ==
    IF (IF override # NoAgent THEN override ELSE bound) = NoAgent
    THEN [raised |-> "Exception", ran |-> NoAgent]
    ELSE IF bound = NoAgent
    THEN \* self.agent.execute_task with self.agent = None
         [raised |-> "AttributeError", ran |-> NoAgent]
    ELSE [raised |-> "none", ran |-> bound]

NoTask == [made |-> FALSE, agent |-> NoAgent, tools |-> "task", declared |-> <<>>,
           built |-> <<>>, output |-> NoOutput, appends |-> 0]
NoExec == [set |-> FALSE, flip |-> 0, override |-> NoAgent, bound |-> NoAgent,
           raised |-> "none", ran |-> NoAgent, called |-> FALSE]

\* the agents are built, a1 with or without tools; no task yet
ObjInit ==
    /\ lists \in {[a1 |-> t, a2 |-> <<"D">>, task |-> <<>>] : t \in {<<>>, <<"A", "B">>}}
    /\ tsk = NoTask
    /\ lastExec = NoExec

\* Task(description=..., agent=ag, tools=declared)
NewTask(declared, ag) ==
    /\ LET ct == check_tools(declared, ag, IF ag = NoAgent THEN <<>> ELSE lists[ag])
       IN /\ lists' = [lists EXCEPT !["task"] = IF ct.ref = "task" THEN ct.val ELSE <<>>]
          /\ tsk' = [made |-> TRUE, agent |-> ag, tools |-> ct.ref, declared |-> declared,
                     built |-> ct.val, output |-> NoOutput, appends |-> 0]
    /\ lastExec' = NoExec
    /\ UNCHANGED <<loopVars, crewVars, cacheVars, seqVars, callVars>>

\* _run_sequential_process lines 228-229: task.tools += AgentTools(...).tools()
AppendDelegation ==
    /\ tsk.made
    /\ tsk.agent \in AllowDelegation
    /\ tsk.appends < MaxAppends
    /\ lists' = [lists EXCEPT ![tsk.tools] = @ \o <<Delegate, AskQuestion>>]
    /\ tsk' = [tsk EXCEPT !.appends = @ + 1]
    /\ UNCHANGED <<loopVars, crewVars, cacheVars, seqVars, callVars, lastExec>>

\* Task.execute(agent=override), the agent that runs answering res; the task
\* has a callback
Execute(override, res) ==
    /\ tsk.made
    /\ LET o == execute_outcome(override, tsk.agent)
       IN /\ lastExec' = [set |-> TRUE, flip |-> 1 - lastExec.flip, override |-> override,
                          bound |-> tsk.agent, raised |-> o.raised, ran |-> o.ran,
                          called |-> o.raised = "none"]
          /\ tsk' = IF o.raised = "none"
                    THEN [tsk EXCEPT !.output = [set |-> TRUE, result |-> res]]
                    ELSE tsk
    /\ UNCHANGED <<loopVars, crewVars, cacheVars, seqVars, callVars, lists>>

ObjNext ==
    \/ \E d \in DeclaredTools, ag \in AgentOrNone : NewTask(d, ag)
    \/ AppendDelegation
    \/ \E o \in AgentOrNone, res \in Results : Execute(o, res)

ObjStart == ObjInit /\ NoLoop /\ NoCrew /\ NoCache /\ NoSeq /\ NoCalls

SpecTaskObject == ObjStart /\ [][ObjNext]_vars

-----------------------------------------------------------------------------
(* Crew construction (src/crewai/crew.py) and the delegation tools         *)
(* (src/crewai/tools/agent_tools.py)                                       *)

\* agents, and tasks, given to a Crew: 0..MaxMembers
MaxMembers == 2
\* tokens of a delegation command: 0..MaxCmdLen
MaxCmdLen == 5

\* ---- Crew.check_config ----

\* Crew.config: None, an empty dict, or a dict in which 'agents' and 'tasks'
\* are absent (None, what dict.get gives), an empty list or a list of one;
\* known: every task of the dict names the role of an agent of the dict
Configs ==
    [kind : {"none", "empty"}, agents : {None}, tasks : {None}, known : {TRUE}]
    \cup [kind : {"dict"}, agents : {None, 0, 1}, tasks : {None, 0, 1}, known : BOOLEAN]

\* a variant of _setup_from_config without the test of lines 167-170
check_config_lenient(na, nt, cfg) ==
    IF cfg.kind # "dict" /\ nt = 0 /\ na = 0
    THEN [error |-> "missing_keys", agents |-> 0, tasks |-> 0]
    ELSE IF cfg.kind = "dict" /\ cfg.agents \notin {None, 0} /\ cfg.tasks \notin {None, 0}
    THEN IF cfg.known
         THEN [error |-> "none", agents |-> cfg.agents, tasks |-> cfg.tasks]
         ELSE [error |-> "StopIteration", agents |-> 0, tasks |-> 0]
    ELSE [error |-> "none", agents |-> na, tasks |-> nt]

\* Crew.check_config and _setup_from_config for na agents and nt tasks given
\* directly: the error raised ("none": a Crew results) and the sizes of the
\* Crew's agent and task lists
check_config(na, nt, cfg) ==
    IF cfg.kind # "dict" /\ nt = 0 /\ na = 0
    THEN [error |-> "missing_keys", agents |-> 0, tasks |-> 0]
    ELSE IF cfg.kind = "dict"
    THEN IF cfg.agents \in {None, 0} \/ cfg.tasks \in {None, 0}
         THEN [error |-> "missing_keys_in_config", agents |-> 0, tasks |-> 0]
         ELSE IF ~cfg.known
         THEN \* _create_task: next() over no agent of that role
              [error |-> "StopIteration", agents |-> 0, tasks |-> 0]
         ELSE [error |-> "none", agents |-> cfg.agents, tasks |-> cfg.tasks]
    ELSE [error |-> "none", agents |-> na, tasks |-> nt]

NoCrewMade == [set |-> FALSE, agents |-> 0, tasks |-> 0,
               cfg |-> [kind |-> "none", agents |-> None, tasks |-> None, known |-> TRUE],
               error |-> "none", out_agents |-> 0, out_tasks |-> 0]

\* ---- AgentTools._execute ----

Pipe == "|"
CommaSpace == ", "
CmdTokens == {Pipe, "r1", "x"}
Commands == UNION {[1..n -> CmdTokens] : n \in 0..MaxCmdLen}
\* the roles of AgentTools.agents, in list order
Roles == << <<"r1">>, <<"r2">> >>

\* str.split(sep)
RECURSIVE split(_, _)
split(s, sep) ==
    IF Find(s, sep) = 0 THEN <<s>>
    ELSE <<SubSeq(s, 1, Find(s, sep) - 1)>> \o split(SubSeq(s, Find(s, sep) + 1, Len(s)), sep)

\* a variant of _execute without the test of lines 96-97
agent_tools_execute_unchecked(command, roles) ==
    LET parts == split(command, Pipe)
    IN  IF Len(parts) # 3
        THEN [text |-> "agent_tool_missing_param", coworkers |-> <<>>, ran |-> 0]
        ELSE LET found == {n \in 1..Len(roles) : roles[n] = parts[1]}
             IN  IF found = {}
                 THEN [text |-> "agent_tool_unexsiting_coworker",
                       coworkers |-> join(CommaSpace, roles), ran |-> 0]
                 ELSE [text |-> "result", coworkers |-> <<>>,
                       ran |-> CHOOSE n \in found : \A k \in found : n <= k]

\* AgentTools._execute: the text returned, the roles a notice names, and the
\* index of the agent whose execute_task ran (0: none)
agent_tools_execute(command, roles) ==
    LET parts == split(command, Pipe)
    IN  IF Len(parts) # 3
        THEN [text |-> "agent_tool_missing_param", coworkers |-> <<>>, ran |-> 0]
        ELSE IF parts[1] = <<>> \/ parts[2] = <<>> \/ parts[3] = <<>>
        THEN [text |-> "agent_tool_missing_param", coworkers |-> <<>>, ran |-> 0]
        ELSE LET found == {n \in 1..Len(roles) : roles[n] = parts[1]}
             IN  IF found = {}
                 THEN [text |-> "agent_tool_unexsiting_coworker",
                       coworkers |-> join(CommaSpace, roles), ran |-> 0]
                 ELSE [text |-> "result", coworkers |-> <<>>,
                       ran |-> CHOOSE n \in found : \A k \in found : n <= k]

NoDeleg == [set |-> FALSE, tool |-> "-", command |-> <<>>, text |-> "-",
            coworkers |-> <<>>, ran |-> 0]

CallsInit ==
    /\ lastCrew = NoCrewMade
    /\ lastDeleg = NoDeleg
    /\ agent_objs = <<>>
    /\ made = <<>>

\* Crew(agents=[na agents], tasks=[nt tasks], config=cfg): what check_config
\* raises or accepts
NewCrew(na, nt, cfg) ==
    /\ LET c == check_config(na, nt, cfg)
       IN lastCrew' = [set |-> TRUE, agents |-> na, tasks |-> nt, cfg |-> cfg,
                       error |-> c.error, out_agents |-> c.agents, out_tasks |-> c.tasks]
    /\ lastDeleg' = NoDeleg
    /\ UNCHANGED <<loopVars, crewVars, cacheVars, seqVars, objVars, agent_objs, made>>

\* AgentTools.delegate_work or ask_question, run with command
DelegateCommand(tool, command) ==
    /\ LET e == agent_tools_execute(command, Roles)
       IN lastDeleg' = [set |-> TRUE, tool |-> tool, command |-> command, text |-> e.text,
                        coworkers |-> e.coworkers, ran |-> e.ran]
    /\ lastCrew' = NoCrewMade
    /\ UNCHANGED <<loopVars, crewVars, cacheVars, seqVars, objVars, agent_objs, made>>

CallsNext ==
    \/ \E na \in 0..MaxMembers, nt \in 0..MaxMembers, cfg \in Configs : NewCrew(na, nt, cfg)
    \/ \E tool \in {Delegate, AskQuestion}, command \in Commands : DelegateCommand(tool, command)

CallsStart == CallsInit /\ NoLoop /\ NoCrew /\ NoCache /\ NoSeq /\ NoObj

SpecCalls == CallsStart /\ [][CallsNext]_vars

\* ---- agent objects that are given to one Crew after another ----

\* Crew constructions that are followed
MaxCrews == 2

\* the limiter of the k-th crew constructed (Crew.set_private_attrs line 120
\* builds one for every Crew, with or without a max_rpm)
CrewLimiter == <<"crew1", "crew2", "crew3">>

\* check_config lines 149-152 for agent object o and the limiter given
join_crew(o, given) ==
    [o EXCEPT !.rpm_controller = set_rpm_controller(@, given)]

\* the agent objects exist before any Crew: Agent(max_rpm=...)
MembersInit ==
    /\ agent_objs \in {[a \in Agents |->
                            [max_rpm |-> f[a],
                             rpm_controller |-> set_private_attrs(a, f[a])]] :
                        f \in [Agents -> RpmValues]}
    /\ made = <<>>
    /\ lastCrew = <<>>
    /\ lastDeleg = <<>>

\* Crew(agents=who, tasks=[...], max_rpm=cap) without a config:
\* set_private_attrs builds the crew's limiter and check_config hands it to
\* every agent object given
ConstructCrew(who, cap) ==
    /\ Len(made) < MaxCrews
    /\ made' = Append(made, [max_rpm |-> cap, agents |-> who])
    /\ agent_objs' = [a \in Agents |->
                         IF a \in who
                         THEN join_crew(agent_objs[a], CrewLimiter[Len(made) + 1])
                         ELSE agent_objs[a]]
    /\ UNCHANGED <<loopVars, crewVars, cacheVars, seqVars, objVars, lastCrew, lastDeleg>>

MembersNext ==
    \E who \in (SUBSET Agents) \ {{}}, cap \in CrewRpmValues : ConstructCrew(who, cap)

MembersStart == MembersInit /\ NoLoop /\ NoCrew /\ NoCache /\ NoSeq /\ NoObj

SpecMembers == MembersStart /\ [][MembersNext]_vars

-----------------------------------------------------------------------------
(* Claims about the execution loop, checked under Spec                     *)

Range(sq) == {sq[i] : i \in 1..Len(sq)}
Frames == Range(frames)
\* the plan steps (by index) of invocation f at which ValueError was raised
RaisedAt(f) == IF f.pc = "raised" THEN {Len(f.planAt)} ELSE {}

\* C1 as stated: an execution that has ended produced the forced-answer step
\* exactly once, at the plan step taken with the counter at max_iterations - 2.
C1_ForcedExactlyOnce ==
    status = "finished" =>
        /\ Len(frames[1].forcedAt) = 1
        /\ frames[1].planAt[frames[1].forcedAt[1]] = max_iterations - 2

\* C1 amended: in every invocation of the loop the forced-answer step is
\* produced at a plan step if and only if the counter equals
\* max_iterations - 2 there and the plan did not return a final answer (that
\* raises); two forced-answer steps of one invocation are separated by a
\* nested execution that ran on the same executor.
C1_ForcedOnlyAtThreshold ==
    \A f \in Frames :
        /\ \A n \in 1..Len(f.planAt) :
              n \in Range(f.forcedAt)
                  <=> (f.planAt[n] = max_iterations - 2 /\ n \notin RaisedAt(f))
        /\ \A i, j \in 1..Len(f.forcedAt) :
              i < j => \E k \in Range(f.toolAt) :
                          /\ f.forcedAt[i] < k /\ k < f.forcedAt[j]
                          /\ f.intermediate_steps[k].tool = Delegate

\* C1 witness: an execution ended after a forced-answer step at the threshold
C1_Witness ==
    /\ status = "finished"
    /\ Len(frames[1].forcedAt) = 1
    /\ frames[1].planAt[frames[1].forcedAt[1]] = max_iterations - 2
    /\ Len(frames[1].planAt) > frames[1].forcedAt[1]

\* C2 as stated: no invocation of the loop performs more than max_iterations
\* plan steps.
C2_AtMostMaxIterPlans ==
    \A f \in Frames : Len(f.planAt) <= max_iterations

\* C3 as stated: every plan step taken with the counter at
\* max_iterations - 2 produces the forced-answer step, and no error is
\* raised.
C3_ForcedWhateverPlanReturns ==
    /\ status # "error"
    /\ \A f \in Frames : \A n \in 1..Len(f.planAt) :
          f.planAt[n] = max_iterations - 2 => n \in Range(f.forcedAt)

\* C4 as stated: the plan step that produced the forced-answer step is the
\* last plan step of its invocation, and no tool runs after it.
C4_StopsAfterForced ==
    \A f \in Frames : \A i \in Range(f.forcedAt) :
        /\ i = Len(f.planAt)
        /\ \A k \in Range(f.toolAt) : k < i

\* C4 amended: the forced-answer step runs no tool; after it the loop goes on
\* with the counter at max_iterations - 1, so one more plan step is taken
\* there (its tools run as usual), unless the forced step's tool is marked
\* return-direct, which ends the execution with the notice as its output.
C4_OneMorePassAfterForced ==
    \A f \in Frames : \A i \in Range(f.forcedAt) :
        /\ i \notin Range(f.toolAt)
        /\ i < Len(f.planAt) => f.planAt[i + 1] = max_iterations - 1
        /\ (i = Len(f.planAt) /\ f.pc = "done") =>
              /\ f.output = "used_too_many_tools"
              /\ f.intermediate_steps[i].tool \in ReturnDirect

\* C4 witness: a tool ran at the plan step that followed a forced-answer step
C4_Witness ==
    \E f \in Frames : \E i \in Range(f.forcedAt) : i + 1 \in Range(f.toolAt)

-----------------------------------------------------------------------------
(* Claims about the limiter and its wiring, checked under SpecCrew and     *)
(* FairSpecCrew                                                            *)

\* the main thread is inside check_or_wait of a limiter that has a cap
InCheckOrWait ==
    mpc \in {"cow_lock", "cow_check", "cow_incr_rd", "cow_incr_wr", "cow_log",
             "wfm_sleep", "wfm_lock", "wfm_write", "cow_set1"}

\* C5 as stated: every call of check_or_wait on a limiter with a cap
\* eventually returns (True), also a call that found the counter at the cap.
C5_EveryCallReturns == InCheckOrWait ~> (mpc = "plan")

\* C6 as stated: a call that finds the counter at the cap logs "Max RPM
\* reached" exactly once, is then permitted, and returns with the counter
\* equal to 1.
C6_BlockedCallPermitted ==
    (mpc = "cow_log") ~> (mpc = "plan" /\ notes = 1 /\ current_rpm[mctl] = 1)

\* C7 as stated: a limiter with cap N permits at most N calls within any
\* rolling 60 seconds.
C7_RollingWindow ==
    \A c \in Controllers : HasCap(c) => Len(ages[c]) <= max_rpm[c]

\* C7 amended: a limiter with cap N permits at most N calls between two
\* consecutive resets of its counter (the windows are the fixed ones the
\* resets delimit, not rolling ones).
C7_FixedWindow ==
    \A c \in Controllers : HasCap(c) => granted[c] <= max_rpm[c]

\* C7 witness: more than N calls were permitted within 60 seconds, N of them
\* since the last reset
C7_Witness ==
    \E c \in Controllers :
        HasCap(c) /\ granted[c] = max_rpm[c] /\ Len(ages[c]) > max_rpm[c]

\* C8: every thread that stands at a read or a write of _current_rpm holds
\* the limiter's lock, and the counter always equals the number of calls
\* permitted since its last reset (no increment and no reset is lost).
C8_CounterUnderLock ==
    /\ mpc \in {"cow_check", "cow_incr_rd", "cow_incr_wr", "wfm_write", "cow_set1"}
          => lock[mctl] = "main"
    /\ \A c \in Controllers :
          /\ tpc[c] = "t_write" => lock[c] = "timer"
          /\ current_rpm[c] = granted[c]

\* C8 witness: the timer callback waits for the lock while the main thread
\* holds it between the read and the write of "+= 1"
C8_Witness ==
    mpc = "cow_incr_wr" /\ tpc[mctl] = "t_lock" /\ lock[mctl] = "main"

OwnCap(a) == Truthy(agent_max_rpm[a])

\* C9: in a crew with a max_rpm, the plan steps of an agent with a max_rpm of
\* its own are gated by the agent's own limiter only: check_or_wait of the
\* crew's limiter never runs for them.
C9_OwnLimiterOnly ==
    \A a \in Agents :
        (OwnCap(a) /\ Truthy(crew_max_rpm)) =>
            /\ \A p \in gated : p[1] = a => p[2] = a
            /\ (InCheckOrWait /\ AgentOf[task] = a) => mctl = a

\* C9 witness: the crew's counter stands at the crew's cap and a plan step of
\* an agent with its own limiter is permitted without a wait
C9_Witness ==
    \E a \in Agents :
        /\ OwnCap(a) /\ Truthy(crew_max_rpm)
        /\ current_rpm["crew"] = crew_max_rpm
        /\ mpc = "plan" /\ AgentOf[task] = a /\ <<a, a>> \in gated /\ notes = 0

\* two agents without a max_rpm of their own in a crew with max_rpm = 1
SharedCapOne ==
    /\ crew_max_rpm = 1
    /\ \A a \in Agents : rpm_controller[a] = "crew"

\* C10 as stated: when the second agent's gated call finds the shared
\* counter at the cap the first agent's call consumed, it waits once (one
\* notification) and then proceeds to its plan step.
C10_SecondAgentProceeds ==
    (SharedCapOne /\ task = 2 /\ mpc = "cow_log")
        ~> (task = 2 /\ mpc = "plan" /\ notes = 1)

\* the limiter the claims call the agent's effective one
Effective(a) == IF OwnCap(a) THEN a ELSE "crew"

\* C11: every plan step of the loop is preceded by exactly one check_or_wait
\* call, made on the agent's effective limiter, and starts only after that
\* call has returned (the call's "with self._lock:" has been left).
C11_GateBeforeEveryPlan ==
    /\ mpc = "loop" => calls = 0
    /\ InCheckOrWait => (calls = 1 /\ mctl = Effective(AgentOf[task]))
    /\ mpc = "plan" =>
          /\ calls = 1
          /\ mctl = Effective(AgentOf[task])
          /\ <<AgentOf[task], mctl>> \in gated
          /\ lock[mctl] # "main"

\* C11 witness: the second plan step of a task is about to start after its
\* own call on a crew limiter that has a cap
C11_Witness ==
    mpc = "plan" /\ citer = 1 /\ calls = 1 /\ mctl = "crew" /\ HasCap("crew")

\* C12: a step of stop_rpm_counter on a limiter that holds no timer returns
\* at once and changes neither the timer, the counter nor the lock; a step
\* on a limiter that holds one goes on to clear it, and when the call
\* returns the limiter holds no timer.
C12_StopIdempotent ==
    [][ /\ (mpc = "stop_cancel" /\ mpc' # mpc /\ ~timer[sctl]) =>
              (mpc' = ret /\ UNCHANGED <<timer, tpc, tleft, current_rpm, lock>>)
        /\ (mpc = "stop_cancel" /\ mpc' # mpc /\ timer[sctl]) => mpc' = "stop_clear"
        /\ (mpc = "stop_clear" /\ mpc' # mpc) => (mpc' = ret /\ ~timer'[sctl])
      ]_vars

\* C12 witness: a second call, on a limiter whose timer an earlier call has
\* stopped, is under way
C12_Witness ==
    mpc = "stop_cancel" /\ ret = "done2" /\ HasCap(sctl) /\ ~timer[sctl]

\* C13 as stated: a check_or_wait call returns at once, with no notification
\* and the counter untouched, exactly when the limiter's cap is None; with
\* every other cap the call goes on to the counter check.
C13_UnthrottledIffNull ==
    [][ (mpc = "loop" /\ mpc' \in {"plan", "cow_lock"}) =>
            /\ max_rpm[mctl'] = None =>
                  (mpc' = "plan" /\ notes' = 0 /\ UNCHANGED current_rpm)
            /\ max_rpm[mctl'] # None => mpc' = "cow_lock"
      ]_vars

-----------------------------------------------------------------------------
(* Claims about the cache and the tools handler, checked under SpecCache   *)

\* C14: a read of the pair that was last added returns the added output; an
\* add for a key the cache held replaces the value and leaves the number of
\* entries as it was, an add for a new key makes one entry more.
C14_ReadAfterAdd ==
    lastAdd.set =>
        /\ cache_read(caches[lastAdd.cache], lastAdd.tool, lastAdd.input) = lastAdd.output
        /\ Cardinality(DOMAIN caches[lastAdd.cache]) =
              IF lastAdd.had THEN lastAdd.size ELSE lastAdd.size + 1

\* an add replaced a different value of the same key
C14_Witness ==
    /\ lastAdd.set /\ lastAdd.had /\ lastAdd.old # lastAdd.output
    /\ cache_read(caches[lastAdd.cache], lastAdd.tool, lastAdd.input) = lastAdd.output

\* C15: when a tool run of an agent ends, the handler has written to the
\* cache exactly when the observation holds no error substring and the tool
\* that ran is not the cache-read tool, and what it wrote is filed under the
\* name and the input of the tool that ran; the handler raises nothing.
C15_WriteExactlyOnSuccess ==
    /\ hstatus # "KeyError"
    /\ lastEnd.set =>
          /\ lastEnd.wrote <=>
                (~has_error_substring(lastEnd.output) /\ lastEnd.tool # <<HitCache>>)
          /\ lastEnd.wrote => (lastEnd.wtool = lastEnd.tool /\ lastEnd.winput = lastEnd.input)

\* C16: the cache-read tool calls read with the tool name and the input the
\* cache-hit signal carried.
C16_RoundTrip ==
    /\ hstatus # "IndexError"
    /\ lastHit.set => (lastHit.rtool = lastHit.tool /\ lastHit.rinput = lastHit.input)

\* C17: once the Crew is built every agent holds the crew's cache, every
\* write and every read of a tools handler goes to it, and a read by any
\* agent of the pair last added returns the output added, whichever agent
\* added it.
C17_OneCachePerCrew ==
    CrewBuilt =>
        /\ \A a \in Agents : cache_handler[a] = "crew"
        /\ lastEnd.set => lastEnd.cache = "crew"
        /\ lastHit.set => lastHit.cache = "crew"
        /\ (lastHit.set /\ lastAdd.set /\ lastAdd.cache = "crew"
               /\ lastHit.rtool = lastAdd.tool /\ lastHit.rinput = lastAdd.input)
              => lastHit.result = lastAdd.output

\* in a crew, a2 read what a1 had added for the same tool and input
C17_Witness ==
    /\ CrewBuilt
    /\ lastAdd.set /\ lastAdd.agent = "a1" /\ lastAdd.cache = "crew"
    /\ lastHit.set /\ lastHit.agent = "a2"
    /\ lastHit.tool = lastAdd.tool /\ lastHit.input = lastAdd.input
    /\ lastHit.rtool = lastAdd.tool /\ lastHit.rinput = lastAdd.input
    /\ lastHit.result = lastAdd.output

\* C18: a step that adds to a cache leaves what read returns for every pair
\* other than the pair added as it was.
C18_AddLeavesOtherPairs ==
    [][\A c \in DOMAIN caches : \A t \in ToolNames, i \in ToolInputs :
          (caches'[c] # caches[c] /\ <<t, i>> # <<lastAdd'.tool, lastAdd'.input>>)
             => cache_read(caches'[c], t, i) = cache_read(caches[c], t, i)]_vars

-----------------------------------------------------------------------------
(* Claims about the tasks of a sequential crew, checked under SpecTasks    *)

NoContextLists == \A k \in Tasks : context[k] = <<>>

\* C19: when no task declares a context list, a task has run only if the
\* task before it has, the first task gets the empty context, every other
\* task gets the output of the task just before it, and the kickoff returns
\* the output of the last task.
C19_SequentialChain ==
    NoContextLists =>
        /\ result.state # "AttributeError"
        /\ \A k \in Tasks : used[k].set <=> (k < pos \/ (pos = 0 /\ kickoffs > 0))
        /\ used[1].set => used[1].val = <<>>
        /\ \A k \in Tasks \ {1} : used[k].set => used[k].val = outputs[k - 1].result
        /\ result.state = "returned" => result.val = outputs[NTasks].result

\* a kickoff returned after the third task got the second task's output,
\* which differs from the first task's
C19_Witness ==
    /\ NoContextLists
    /\ result.state = "returned"
    /\ used[3].set /\ used[3].val = outputs[2].result
    /\ outputs[1].result # outputs[2].result
    /\ result.val = outputs[NTasks].result

\* the results of the listed tasks, in list order, with a newline between
\* each two
RECURSIVE Joined(_, _)
Joined(list, outs) ==
    IF list = <<>> THEN <<>>
    ELSE LET front == SubSeq(list, 1, Len(list) - 1)
             last  == outs[list[Len(list)]].result
         IN  IF front = <<>> THEN last ELSE Joined(front, outs) \o <<Newline>> \o last

\* C20: a step that executes a task with a declared context list passes to
\* the agent the results its listed tasks have at that moment, joined by
\* newlines in list order, whatever the scheduler passed in.
C20_DeclaredContext ==
    [][(pos \in Tasks /\ pos' = pos + 1 /\ context[pos] # <<>>)
          => (used'[pos].set /\ used'[pos].val = Joined(context[pos], outputs))]_vars

\* the third task declared the second and the first, in that order, and was
\* executed with their two results and not with the second task's alone
C20_Witness ==
    /\ pos = 4
    /\ context[3] = <<2, 1>>
    /\ outputs[1].result # outputs[2].result
    /\ used[3].set
    /\ used[3].val = outputs[2].result \o <<Newline>> \o outputs[1].result
    /\ used[3].val # task_output

\* C23: once a task has an output, no step changes it.
C23_OutputSetOnce ==
    [][\A k \in Tasks : outputs[k].set => outputs'[k] = outputs[k]]_vars

-----------------------------------------------------------------------------
(* Further claims about the crew's limiter, checked under SpecCrew         *)

\* Crew.kickoff has returned
KickoffReturned == mpc = "done" \/ ret = "done2"

\* C26: once kickoff of a crew with a cap has returned, the crew's limiter
\* holds no timer and no timer of it is pending or being re-armed.
C26_NoTimerAfterKickoff ==
    (KickoffReturned /\ Truthy(crew_max_rpm)) =>
        (~timer["crew"] /\ tpc["crew"] = "none")

-----------------------------------------------------------------------------
(* Further claims about the execution loop, checked under Spec             *)

\* C30: in every execution, a step of the '_Exception' pseudo-tool carries
\* the parsing failure as its observation when the plan it came from was not
\* at the force-answer threshold and is the forced-answer step when it was;
\* after such a step the loop is still running or has ended by the iteration
\* limit; and an execution fails only in a plan at the threshold.
C30_ParseErrorFeedsBack ==
    \A f \in Frames :
        /\ \A j \in 1..Len(f.intermediate_steps) :
              f.intermediate_steps[j].tool = ExceptionTool =>
                 IF f.planAt[j] = force_answer_max_iterations
                 THEN /\ f.intermediate_steps[j].observation = "used_too_many_tools"
                      /\ j \in Range(f.forcedAt)
                 ELSE /\ f.intermediate_steps[j].observation = "parse_error"
                      /\ j \notin Range(f.forcedAt)
        /\ (/\ f.intermediate_steps # <<>>
            /\ Len(f.intermediate_steps) = Len(f.planAt)
            /\ f.intermediate_steps[Len(f.intermediate_steps)].tool = ExceptionTool)
              => (f.pc = "loop" \/ (f.pc = "done" /\ f.output = "stopped"))
        /\ f.pc = "raised" => f.planAt[Len(f.planAt)] = force_answer_max_iterations

\* an execution fed a parsing failure back at counter 0, went on, and at the
\* threshold recorded the forced-answer step for the next parsing failure
C30_Witness ==
    \E f \in Frames :
        /\ Len(f.intermediate_steps) >= 2
        /\ f.intermediate_steps[1] = [tool |-> ExceptionTool, observation |-> "parse_error"]
        /\ f.planAt[1] = 0
        /\ f.intermediate_steps[2] =
              [tool |-> ExceptionTool, observation |-> "used_too_many_tools"]
        /\ f.planAt[2] = force_answer_max_iterations

-----------------------------------------------------------------------------
(* Claims about one Task object, checked under SpecTaskObject              *)

\* C21: an execute that was given an override agent ran on that agent and
\* raised nothing, whatever agent the task declares, if any.
C21_RunsOnOverride ==
    (lastExec.set /\ lastExec.override # NoAgent) =>
        (lastExec.raised = "none" /\ lastExec.ran = lastExec.override)

\* C22: an execute with no override agent on a task with no agent raised the
\* no-agent error, no agent ran, the callback was not called and the task
\* has no output.
C22_NoAgentIsAnError ==
    (lastExec.set /\ lastExec.override = NoAgent /\ lastExec.bound = NoAgent) =>
        /\ lastExec.raised = "Exception"
        /\ lastExec.ran = NoAgent
        /\ ~lastExec.called
        /\ ~tsk.output.set

\* a task with no agent was executed with no override
C22_Witness ==
    /\ lastExec.set /\ lastExec.override = NoAgent /\ lastExec.bound = NoAgent
    /\ tsk.made /\ tsk.agent = NoAgent
    /\ lastExec.raised = "Exception"

\* C24: a task built with no tools holds its agent's tools in the agent's
\* order, a task built with tools holds the declared tools and no others.
C24_ToolsResolved ==
    tsk.made =>
        /\ (tsk.declared = <<>> /\ tsk.agent # NoAgent) => tsk.built = lists[tsk.agent]
        /\ tsk.declared # <<>> => tsk.built = tsk.declared
        /\ tsk.appends = 0 => lists[tsk.tools] = tsk.built

\* a task that declared no tools was built on an agent with tools A, B
C24_Witness ==
    /\ tsk.made /\ tsk.declared = <<>> /\ tsk.agent = "a1" /\ tsk.appends = 0
    /\ lists["a1"] = <<"A", "B">>
    /\ lists[tsk.tools] = <<"A", "B">>

\* C25: no step changes the tools of an agent.
C25_AgentToolsUntouched ==
    [][\A a \in Agents : lists'[a] = lists[a]]_vars

\* the delegation tools were appended to the tools a task inherited, and the
\* agent's tools are as they were
C25_Witness ==
    /\ tsk.made /\ tsk.declared = <<>> /\ tsk.agent = "a1" /\ tsk.appends = 1
    /\ tsk.built = <<"A", "B">>
    /\ lists[tsk.tools] = <<"A", "B", Delegate, AskQuestion>>
    /\ lists["a1"] = <<"A", "B">>

-----------------------------------------------------------------------------
(* Claims about Crew construction and the delegation tools, checked under  *)
(* SpecCalls                                                               *)

\* the number of separators in a command
NPipes(command) == Cardinality({n \in 1..Len(command) : command[n] = Pipe})

\* the command is three non-empty segments with a separator between each two
ThreeSegments(command) ==
    /\ NPipes(command) = 2
    /\ command[1] # Pipe
    /\ command[Len(command)] # Pipe
    /\ \A n \in 1..(Len(command) - 1) : ~(command[n] = Pipe /\ command[n + 1] = Pipe)

\* the tokens before the first separator
RoleOf(command) ==
    SubSeq(command, 1, (CHOOSE n \in 1..Len(command) :
                           command[n] = Pipe /\ \A k \in 1..(n - 1) : command[k] # Pipe) - 1)

C28_ConfigErrors ==
    lastCrew.set =>
        /\ (lastCrew.agents = 0 /\ lastCrew.tasks = 0 /\ lastCrew.cfg.kind = "none")
              => lastCrew.error = "missing_keys"
        /\ (lastCrew.cfg.kind = "dict"
               /\ (lastCrew.cfg.agents = None \/ lastCrew.cfg.tasks = None))
              => lastCrew.error = "missing_keys_in_config"

\* a construction from a config with agents and without 'tasks' failed
C28_Witness ==
    /\ lastCrew.set
    /\ lastCrew.cfg.kind = "dict" /\ lastCrew.cfg.agents = 1 /\ lastCrew.cfg.tasks = None
    /\ lastCrew.error = "missing_keys_in_config"

\* C29: a construction that succeeded gave a Crew with at least one agent
\* and at least one task.
C29_NonEmptyCrew ==
    (lastCrew.set /\ lastCrew.error = "none") =>
        (lastCrew.out_agents >= 1 /\ lastCrew.out_tasks >= 1)


(***************************************************************************)
(* Claims about tool lookup and return-direct tools, checked under Spec    *)
(***************************************************************************)

\* the steps of frame f that carry the invalid-tool notice
InvalidSteps(f) ==
    {j \in 1..Len(f.intermediate_steps) :
        f.intermediate_steps[j].observation = "invalid_tool"}

\* C31: a proposed tool name that is not in the available tool set does not
\* fail the execution and runs no tool: the loop records a step whose
\* observation is the invalid-tool notice listing the available names, and
\* goes on with the next pass
C31_InvalidToolIsAStep ==
    \A f \in Frames :
        /\ \A j \in Range(f.toolAt) :
              j <= Len(f.intermediate_steps)
                  => f.intermediate_steps[j].tool \in f.name_to_tool_map
        /\ \A j \in InvalidSteps(f) :
              /\ j \notin Range(f.toolAt)
              /\ \E l \in Range(f.listedAt) :
                    /\ l.n = j
                    /\ f.intermediate_steps[j].tool \notin l.names
                    /\ l.names \subseteq f.name_to_tool_map
              /\ j = Len(f.planAt) =>
                    \/ f.pc = "loop"
                    \/ f.pc = "done" /\ f.output = "stopped"


\* the steps of frame f whose tool is one of the frame's tools and is marked
\* return-direct
ReturnDirectSteps(f) ==
    {j \in 1..Len(f.intermediate_steps) :
        /\ f.intermediate_steps[j].tool \in f.name_to_tool_map
        /\ f.intermediate_steps[j].tool \in ReturnDirect}

\* C32: when a pass produced one step and the tool of that step is marked
\* return-direct, the execution finishes at once with that tool's own
\* observation as the final output: the step is the last one, no further
\* plan step is taken, and the output is what the tool returned
C32_ReturnDirectFinishes ==
    \A f \in Frames : \A j \in ReturnDirectSteps(f) :
        /\ j = Len(f.intermediate_steps)
        /\ j = Len(f.planAt)
        /\ f.pc = "done"
        /\ f.output = f.intermediate_steps[j].observation
        /\ j \in Range(f.toolAt)


\* C34: during one task execution the counter changes only by that
\* execution's own increment, also across a nested execution on the same
\* agent reached through delegation: whenever the outer loop is about to
\* test the counter, the counter is the number of passes the outer
\* execution has completed, so at most max_iterations plan steps are taken
C34_CounterIsOwn ==
    (Len(frames) = 1 /\ frames[1].pc = "loop")
        => /\ iterations = Len(frames[1].intermediate_steps)
           /\ Len(frames[1].planAt) <= max_iterations


----------------------------------------------------------------------------
(* Further claims about the cache writes, checked under SpecCache          *)

\* C33: every value written into the cache under (tool, input) is the
\* observation of running that tool on that input: the run whose end wrote
\* it is a run of that tool on that input, never a run of the exception
\* tool, of the invalid-tool notice or of any other tool
C33_CachedValueIsOwnObservation ==
    lastEnd.wrote =>
        /\ lastAdd.set
        /\ lastAdd.output = lastEnd.output
        /\ lastAdd.tool = lastEnd.tool
        /\ lastAdd.input = lastEnd.input
        /\ lastEnd.tool \notin {<<ExceptionTool>>, <<InvalidToolName>>}


----------------------------------------------------------------------------
(* Further claims about the limiters, checked under SpecCrew               *)

\* C35: for a limiter with a cap N >= 1 the counter of permitted calls stays
\* within 0..N in every reachable state, whatever the interleaving of the
\* gated calls and the timer callback
C35_CounterWithinCap ==
    \A c \in Controllers :
        HasCap(c) => (0 <= current_rpm[c] /\ current_rpm[c] <= max_rpm[c])

\* C35 witness: a counter stands at a cap of two, and a further gated call
\* on that limiter is at its comparison while the timer callback has fired
C35_Witness ==
    \E c \in Controllers :
        /\ HasCap(c) /\ max_rpm[c] = MaxCap /\ current_rpm[c] = max_rpm[c]
        /\ mpc = "cow_check" /\ mctl = c
        /\ tpc[c] = "t_lock"

\* stop_rpm_counter has been called on limiter c and has returned
StopReturned(c) == sctl = c /\ mpc \notin {"stop_cancel", "stop_clear"}

\* C36: once stop_rpm_counter has returned, the limiter has no reset timer
\* outstanding and none is started later, also when the stop ran while the
\* timer callback was in progress
C36_NoTimerAfterStop ==
    \A c \in Controllers :
        StopReturned(c) => (~timer[c] /\ tpc[c] = "none")

\* the main thread is in the executor's loop, running a task of agent a
InExecutor(a) ==
    /\ task >= 1 /\ AgentOf[task] = a
    /\ (mpc \in {"loop", "plan"} \/ InCheckOrWait)

\* C37: while an agent with a max_rpm of its own executes a task, the reset
\* timer of its limiter is running (pending, or its callback is in progress
\* and will start the next one), in the second and later executions as in
\* the first
C37_TimerRunsWhileExecuting ==
    \A a \in Agents :
        (OwnCap(a) /\ InExecutor(a)) => (timer[a] /\ tpc[a] # "none")

----------------------------------------------------------------------------
(* Claims about the limiter an agent object holds, checked under SpecMembers *)

\* the crew constructed last
LastCrew == made[Len(made)]

\* C38: after a Crew with a max_rpm is constructed, every agent of it without
\* a max_rpm of its own is gated by that crew's limiter, also an agent object
\* that was a member of a crew constructed earlier
C38_GatedByThisCrew ==
    (Len(made) >= 1 /\ Truthy(LastCrew.max_rpm)) =>
        \A a \in LastCrew.agents :
            ~Truthy(agent_objs[a].max_rpm) =>
                request_within_rpm_limit(agent_objs[a].rpm_controller)
                    = CrewLimiter[Len(made)]

----------------------------------------------------------------------------
(* Further claims about the tasks of a sequential crew, checked under      *)
(* SpecTasks                                                               *)

\* C39: whenever the sequential scheduler executes a task that declares
\* predecessors, every predecessor has produced its result before, for every
\* order of the tasks and every choice of predecessors
C39_PredecessorsDone ==
    [][(pos \in Tasks /\ pos' # pos)
          => \A n \in 1..Len(context[pos]) : outputs[context[pos][n]].set]_vars

----------------------------------------------------------------------------
(* Further claims about a task's tools, checked under SpecTaskObject       *)

\* how often tool t occurs in the list xs
Occurrences(t, xs) == Cardinality({n \in 1..Len(xs) : xs[n] = t})

\* C40: after any number of kickoffs a task of an agent that may delegate
\* holds each of the two delegation tools at most once, and its tools do not
\* grow from one kickoff to the next
C40_DelegationToolsOnce ==
    (tsk.made /\ tsk.agent \in AllowDelegation) =>
        /\ Occurrences(Delegate, lists[tsk.tools]) <= 1
        /\ Occurrences(AskQuestion, lists[tsk.tools]) <= 1
        /\ tsk.appends >= 1 => Len(lists[tsk.tools]) = Len(tsk.built) + 2

====
